---------------------------- MODULE Spec2Model ----------------------------
(***************************************************************************)
(* Model of the transaction resolution of etherscan-tui-go:                *)
(* internal/etherscan/client.go (Client.FetchTransaction and the three     *)
(* dependent fetches it calls).                                            *)
(*                                                                         *)
(* Go strings are modelled as sequences of symbols.  A numeric string is a *)
(* sequence of one-character strings ("0xb" is <<"0","x","b">>); a         *)
(* provider or error message is a sequence of phrases, so that             *)
(* strings.Contains(msg, p) is "p is one of the phrases of msg" and        *)
(* fmt.Errorf("prefix: %s", msg) is concatenation.                         *)
(*                                                                         *)
(* The record fields modelled are Hash, BlockNumber, Confirmations,        *)
(* Status, Timestamp and GasUsed: the ones the control flow of             *)
(* FetchTransaction decides.                                               *)
(***************************************************************************)
EXTENDS Integers, Sequences, FiniteSets, TLC

(***************************************************************************)
(* Strings                                                                 *)
(***************************************************************************)
Contains(s, p) == \E i \in 1..Len(s) : s[i] = p

HasPrefix(s, p) == Len(s) >= Len(p) /\ SubSeq(s, 1, Len(p)) = p

TrimPrefix(s, p) == IF HasPrefix(s, p) THEN SubSeq(s, Len(p) + 1, Len(s)) ELSE s

Prefix0x == <<"0", "x">>

LowerDigits == <<"0", "1", "2", "3", "4", "5", "6", "7", "8", "9",
                 "a", "b", "c", "d", "e", "f">>

UpperDigits == <<"0", "1", "2", "3", "4", "5", "6", "7", "8", "9",
                 "A", "B", "C", "D", "E", "F">>

IsDigit(c, base) ==
  \E i \in 1..base : LowerDigits[i] = c \/ UpperDigits[i] = c

DigitVal(c) ==
  (CHOOSE i \in 1..Len(LowerDigits) : LowerDigits[i] = c \/ UpperDigits[i] = c) - 1

RECURSIVE DigitsVal(_, _)
DigitsVal(ds, base) ==
  IF ds = <<>> THEN 0
  ELSE DigitsVal(SubSeq(ds, 1, Len(ds) - 1), base) * base + DigitVal(ds[Len(ds)])

\* (*big.Int).SetString(s, base) for base 10 and 16: an optional sign and at
\* least one digit of the base; anything else fails.
SetString(s, base) ==
  LET signed == Len(s) > 0 /\ (s[1] = "-" \/ s[1] = "+")
      ds     == IF signed THEN Tail(s) ELSE s
  IN  IF ds = <<>> \/ \E i \in 1..Len(ds) : ~IsDigit(ds[i], base)
      THEN [ok |-> FALSE, val |-> 0]
      ELSE [ok |-> TRUE,
            val |-> IF signed /\ s[1] = "-" THEN 0 - DigitsVal(ds, base)
                    ELSE DigitsVal(ds, base)]

RECURSIVE NatString(_)
NatString(n) ==
  IF n < 10 THEN <<LowerDigits[n + 1]>>
  ELSE NatString(n \div 10) \o <<LowerDigits[(n % 10) + 1]>>

\* (*big.Int).String(): the decimal representation.
BigString(n) == IF n < 0 THEN <<"-">> \o NatString(0 - n) ELSE NatString(n)

stringToBigInt(s) ==
  IF HasPrefix(s, Prefix0x) THEN SetString(TrimPrefix(s, Prefix0x), 16)
  ELSE SetString(s, 10)

(***************************************************************************)
(* Numbers of any size.  A magnitude is the sequence of its digits in some *)
(* radix, most significant first and without leading zeros; <<>> is zero.  *)
(* A big.Int is a sign and a decimal magnitude.                            *)
(***************************************************************************)
RECURSIVE MulAdd(_, _, _, _)
\* The magnitude ds * m + c, in the radix of ds.
MulAdd(ds, m, c, radix) ==
  IF ds = <<>>
  THEN IF c = 0 THEN <<>> ELSE MulAdd(<<>>, m, c \div radix, radix) \o <<c % radix>>
  ELSE LET t == ds[Len(ds)] * m + c
       IN  IF t < radix THEN MulAdd(SubSeq(ds, 1, Len(ds) - 1), m, 0, radix) \o <<t>>
           ELSE MulAdd(SubSeq(ds, 1, Len(ds) - 1), m, t \div radix, radix)
                \o <<t % radix>>

RECURSIVE Convert(_, _, _)
\* The digits ds of radix from, as a magnitude in radix to.
Convert(ds, from, to) ==
  IF ds = <<>> THEN <<>>
  ELSE MulAdd(Convert(SubSeq(ds, 1, Len(ds) - 1), from, to), from, ds[Len(ds)], to)

DigitInts(chars) == [i \in 1..Len(chars) |-> DigitVal(chars[i])]

DigitChars(mag) ==
  IF mag = <<>> THEN <<"0">> ELSE [i \in 1..Len(mag) |-> LowerDigits[mag[i] + 1]]

NoBig == [ok |-> FALSE, neg |-> FALSE, mag |-> <<>>]

\* SetString keeping every digit of the number.
BigSetString(s, base) ==
  LET signed == Len(s) > 0 /\ (s[1] = "-" \/ s[1] = "+")
      ds     == IF signed THEN Tail(s) ELSE s
  IN  IF ds = <<>> \/ \E i \in 1..Len(ds) : ~IsDigit(ds[i], base) THEN NoBig
      ELSE [ok  |-> TRUE,
            neg |-> signed /\ s[1] = "-" /\ Convert(DigitInts(ds), base, 10) # <<>>,
            mag |-> Convert(DigitInts(ds), base, 10)]

\* (*big.Int).String()
BigIntString(b) == (IF b.neg THEN <<"-">> ELSE <<>>) \o DigitChars(b.mag)

\* stringToBigInt keeping every digit, client.go 211-224
stringToBig(s) ==
  IF HasPrefix(s, Prefix0x) THEN BigSetString(TrimPrefix(s, Prefix0x), 16)
  ELSE BigSetString(s, 10)

\* client.go 391-408
hexToDecimal(hexStr) ==
  IF hexStr = <<>> \/ ~HasPrefix(hexStr, Prefix0x) THEN hexStr
  ELSE LET trimmed == TrimPrefix(hexStr, Prefix0x)
       IN  IF trimmed = <<>> THEN <<"0">>
           ELSE IF ~BigSetString(trimmed, 16).ok THEN hexStr
           ELSE BigIntString(BigSetString(trimmed, 16))

\* 1e18, client.go 326: the decimal places of wei in ETH.
EthPlaces == 18

\* 1e9, client.go 356: the decimal places of wei in Gwei.
GweiPlaces == 9

\* ds without its trailing zeros
TrimZeros(ds) ==
  LET nz == {i \in 1..Len(ds) : ds[i] # 0} IN
  IF nz = {} THEN <<>> ELSE SubSeq(ds, 1, CHOOSE i \in nz : \A j \in nz : j <= i)

\* The arithmetic of big.Float is done on magnitudes of radix 1000, three
\* decimal digits to a limb.
Radix == 1000

Limbs(mag) == Convert(mag, 10, Radix)

\* The decimal digits of a magnitude of limbs, without leading zeros.
Digits(limbs) ==
  LET all == [i \in 1..3 * Len(limbs)
                |-> (limbs[((i - 1) \div 3) + 1] \div 10 ^ (2 - ((i - 1) % 3))) % 10]
      nz  == {i \in 1..Len(all) : all[i] # 0}
  IN  IF nz = {} THEN <<>>
      ELSE SubSeq(all, CHOOSE i \in nz : \A j \in nz : i <= j, Len(all))

\* The powers a limb can be multiplied by at once.
Chunk(base) == IF base = 2 THEN 20 ELSE 9

RECURSIVE MulPow(_, _, _)
\* The magnitude of limbs ls * base^k.
MulPow(ls, base, k) ==
  IF k <= Chunk(base) THEN MulAdd(ls, base ^ k, 0, Radix)
  ELSE MulAdd(MulPow(ls, base, k - Chunk(base)), base ^ Chunk(base), 0, Radix)

RECURSIVE Bits(_)
Bits(n) == IF n = 0 THEN 0 ELSE 1 + Bits(n \div 2)

\* (*big.Int).BitLen() of a magnitude of limbs.
BitLen(ls) ==
  LET h == Convert(ls, Radix, 4096)
  IN  IF h = <<>> THEN 0 ELSE 12 * (Len(h) - 1) + Bits(h[1])

\* ls - 1, for a magnitude above zero.
Pred(ls) ==
  LET nz == {i \in 1..Len(ls) : ls[i] # 0}
      j  == CHOOSE i \in nz : \A x \in nz : x <= i
  IN  [i \in 1..Len(ls) |-> IF i < j THEN ls[i] ELSE IF i = j THEN ls[i] - 1 ELSE Radix - 1]

\* The mantissa bits a big.Float made by SetInt has at least.
MinPrec == 64

\* big.Float.SetInt: the precision is max(64, BitLen), client.go 350.
PrecOf(v) == IF BitLen(v) > MinPrec THEN BitLen(v) ELSE MinPrec

\* 10^(3 * pl) in limbs.
TenTo(pl) == <<1>> \o [i \in 1..pl |-> 0]

\* n divided by 10^(3 * pl): the quotient and the remainder, pl limbs long.
Floor(n, pl) == IF Len(n) > pl THEN SubSeq(n, 1, Len(n) - pl) ELSE <<>>

Rem(n, pl) ==
  LET pad == [i \in 1..pl |-> 0] \o n IN SubSeq(pad, Len(pad) - pl + 1, Len(pad))

\* The power of two that brings v / 10^(3 * pl) to PrecOf(v) bits before the
\* point, if the quotient has as few bits as it can have ...
Shift0(v, pl) == PrecOf(v) - BitLen(v) + BitLen(TenTo(pl))

\* ... and in any case.
Shift(v, pl) ==
  IF BitLen(Floor(MulPow(v, 2, Shift0(v, pl)), pl)) > PrecOf(v)
  THEN Shift0(v, pl) - 1 ELSE Shift0(v, pl)

\* n / 10^(3 * pl) rounded to an integer, to nearest and to even on a tie.
RoundHalfEven(n, pl) ==
  IF \/ Rem(n, pl)[1] > Radix \div 2
     \/ /\ Rem(n, pl)[1] = Radix \div 2
        /\ \/ \E i \in 2..pl : Rem(n, pl)[i] # 0
           \/ Floor(n, pl) # <<>> /\ Floor(n, pl)[Len(Floor(n, pl))] % 2 = 1
  THEN MulAdd(Floor(n, pl), 1, 1, Radix)
  ELSE Floor(n, pl)

\* The float m / 2^k of prec mantissa bits as t / 2^k' with t twice the
\* mantissa: the numbers that round to it lie between (t-1) / 2^k' and
\* (t+1) / 2^k', the bounds included when the mantissa is even.  A mantissa
\* rounded up to 2^prec is halved.
FloatOf(m, k, prec) ==
  IF BitLen(m) > prec THEN [t |-> m, k |-> k, inclusive |-> TRUE]
  ELSE [t |-> MulAdd(m, 2, 0, Radix), k |-> k + 1, inclusive |-> m[Len(m)] % 2 = 0]

\* new(big.Float).SetInt(b) divided by 10^places, client.go 350-351: Quo
\* rounds the exact quotient to the mantissa bits of the dividend.
QuoLimbs(v, pl) ==
  FloatOf(RoundHalfEven(MulPow(v, 2, Shift(v, pl)), pl), Shift(v, pl), PrecOf(v))

QuoFloat(mag, places) == QuoLimbs(Limbs(mag), places \div 3)

\* math/big decimal: the digits without trailing zeros, and where the
\* decimal point stands.
Decimal(t, k) ==
  LET ds == Digits(MulPow(t, 5, k)) IN [mant |-> TrimZeros(ds), exp |-> Len(ds) - k]

\* (*decimal).at
At(mant, i) == IF 1 <= i /\ i <= Len(mant) THEN mant[i] ELSE 0

\* (*decimal).roundUp to n digits
RoundUp(d, n) ==
  IF n >= Len(d.mant) THEN d
  ELSE LET low == {j \in 1..n : d.mant[j] < 9} IN
       IF low = {} THEN [mant |-> <<1>>, exp |-> d.exp + 1]
       ELSE LET j == CHOOSE x \in low : \A y \in low : y <= x
            IN  [mant |-> SubSeq(d.mant, 1, j - 1) \o <<d.mant[j] + 1>>, exp |-> d.exp]

\* (*decimal).roundDown to n digits
RoundDown(d, n) ==
  IF n >= Len(d.mant) THEN d
  ELSE [mant |-> TrimZeros(SubSeq(d.mant, 1, n)), exp |-> d.exp]

\* (*decimal).round to n digits, half to even
Round(d, n) ==
  IF n >= Len(d.mant) THEN d
  ELSE IF (IF d.mant[n + 1] = 5 /\ n + 1 = Len(d.mant)
           THEN d.mant[n] % 2 = 1 ELSE d.mant[n + 1] >= 5)
       THEN RoundUp(d, n) ELSE RoundDown(d, n)

\* math/big roundShortest: the fewest digits of d that still lie between the
\* two bounds.
Shortest(d, lower, upper, inclusive) ==
  LET okdown(i) == At(lower, i) # d.mant[i] \/ (inclusive /\ i = Len(lower))
      okup(i)   == /\ d.mant[i] # At(upper, i)
                   /\ (inclusive \/ d.mant[i] + 1 < At(upper, i) \/ i < Len(upper))
      cuts      == {i \in 1..Len(d.mant) : okdown(i) \/ okup(i)}
      first     == CHOOSE x \in cuts : \A y \in cuts : x <= y
  IN  IF cuts = {} THEN d
      ELSE IF okdown(first) /\ okup(first) THEN Round(d, first)
      ELSE IF okdown(first) THEN RoundDown(d, first)
      ELSE RoundUp(d, first)

RoundShortest(f) ==
  Shortest(Decimal(f.t, f.k), Decimal(Pred(f.t), f.k).mant,
           Decimal(MulAdd(f.t, 1, 1, Radix), f.k).mant, f.inclusive)

\* math/big fmtF with the precision of Text('f', -1): every digit of d.
FmtF(d) ==
  LET prec == IF Len(d.mant) > d.exp THEN Len(d.mant) - d.exp ELSE 0
      whole == IF d.exp > 0 THEN [i \in 1..d.exp |-> At(d.mant, i)] ELSE <<0>>
      frac  == [i \in 1..prec |-> At(d.mant, d.exp + i)]
  IN  [i \in 1..Len(whole) |-> LowerDigits[whole[i] + 1]]
      \o (IF prec = 0 THEN <<>>
          ELSE <<".">> \o [i \in 1..prec |-> LowerDigits[frac[i] + 1]])

\* The big.Float of b divided by 10^places, written with Text('f', -1),
\* client.go 331 and 363.
QuoText(b, places) ==
  IF b.mag = <<>> THEN <<"0">>
  ELSE (IF b.neg THEN <<"-">> ELSE <<>>) \o FmtF(RoundShortest(QuoFloat(b.mag, places)))

\* client.go 334-353; val is given as its number of decimal places.
hexToFloat(hexStr, places) ==
  IF hexStr = <<>> \/ ~HasPrefix(hexStr, Prefix0x)
    THEN [done |-> TRUE, s |-> hexStr, val |-> NoBig]
  ELSE IF TrimPrefix(hexStr, Prefix0x) = <<>>
    THEN [done |-> TRUE, s |-> <<"0", " ETH">>, val |-> NoBig]
  ELSE IF ~BigSetString(TrimPrefix(hexStr, Prefix0x), 16).ok
    THEN [done |-> TRUE, s |-> hexStr, val |-> NoBig]
  ELSE [done |-> FALSE, s |-> <<>>, val |-> BigSetString(TrimPrefix(hexStr, Prefix0x), 16)]

\* client.go 325-332
formatValue(hexStr) ==
  IF hexToFloat(hexStr, EthPlaces).done THEN hexToFloat(hexStr, EthPlaces).s
  ELSE QuoText(hexToFloat(hexStr, EthPlaces).val, EthPlaces) \o <<" ETH">>

\* client.go 355-364
formatGasPrice(hexStr) ==
  IF hexToFloat(hexStr, GweiPlaces).done THEN hexToFloat(hexStr, GweiPlaces).s
  ELSE QuoText(hexToFloat(hexStr, GweiPlaces).val, GweiPlaces) \o <<" Gwei (">>
       \o QuoText(hexToFloat(hexStr, EthPlaces).val, EthPlaces) \o <<" ETH)">>

\* The hexadecimal digits of a 64-bit word.
WordDigits == 16

\* (*big.Int).Int64(), math/big: int64(low64(x.abs)), negated if x.neg, all in
\* two's complement.  The result is a sign and a hexadecimal magnitude.
Int64(b) ==
  LET hex  == Convert(b.mag, 10, 16)
      low  == Convert(IF Len(hex) > WordDigits
                      THEN SubSeq(hex, Len(hex) - WordDigits + 1, Len(hex)) ELSE hex,
                      16, 16)
      top  == Len(low) = WordDigits /\ low[1] >= 8
      comp == MulAdd([i \in 1..Len(low) |-> 15 - low[i]], 1, 1, 16)
      vmag == IF top THEN comp ELSE low
      min  == top /\ comp = low
  IN  [neg |-> vmag # <<>> /\ (IF min THEN TRUE ELSE IF b.neg THEN ~top ELSE top),
       mag |-> vmag]

\* client.go 410-432
formatTransactionType(hexStr) ==
  IF hexStr = <<>> \/ hexStr = Prefix0x THEN <<"0", " (Legacy)">>
  ELSE IF ~stringToBig(hexStr).ok THEN hexStr
  ELSE LET val == Int64(stringToBig(hexStr)) IN
       IF val.mag = <<>> THEN <<"0", " (Legacy)">>
       ELSE IF ~val.neg /\ val.mag = <<1>> THEN <<"1", " (Access List)">>
       ELSE IF ~val.neg /\ val.mag = <<2>> THEN <<"2", " (EIP-1559)">>
       ELSE IF ~val.neg /\ val.mag = <<3>> THEN <<"3", " (EIP-4844)">>
       ELSE (IF val.neg THEN <<"-">> ELSE <<>>) \o DigitChars(Convert(val.mag, 16, 10))

\* calculateConfirmations without the + 1 of client.go 207.
calculateConfirmationsOffByOne(latestBlock, txBlock) ==
  IF latestBlock = <<>> \/ txBlock = <<>> \/ txBlock = <<"0", "x", "0">> THEN <<>>
  ELSE LET latest == stringToBigInt(latestBlock)
           txb    == stringToBigInt(txBlock)
       IN  IF ~latest.ok \/ ~txb.ok THEN <<"error">>
           ELSE IF latest.val - txb.val < 0 THEN <<"0">>
           ELSE BigString(latest.val - txb.val)


calculateConfirmations(latestBlock, txBlock) ==
  IF latestBlock = <<>> \/ txBlock = <<>> \/ txBlock = <<"0", "x", "0">> THEN <<>>
  ELSE LET latest == stringToBigInt(latestBlock)
           txb    == stringToBigInt(txBlock)
       IN  IF ~latest.ok \/ ~txb.ok THEN <<"error">>
           ELSE IF latest.val - txb.val < 0 THEN <<"0">>
           ELSE BigString(latest.val - txb.val + 1)


(***************************************************************************)
(* HTTP outcomes.  One value stands for what c.http.Get and io.ReadAll     *)
(* hand back: a transport error, or a body that is malformed JSON or a     *)
(* JSON-RPC envelope with an optional error object and a result that is    *)
(* absent, null, a string, an object or a number.  An object carries the   *)
(* fields the four decoders read; a field the body does not carry is "".   *)
(***************************************************************************)
NoObj ==
  [hash |-> <<>>, blockNumber |-> <<>>, status |-> <<>>, gasUsed |-> <<>>,
   timestamp |-> <<>>]

Envelope(kind, str, obj) ==
  [netErr |-> FALSE, netMsg |-> <<>>, valid |-> TRUE, hasError |-> FALSE,
   errMsg |-> <<>>, rkind |-> kind, rstr |-> str, robj |-> obj]

NetFail(msg) == [Envelope("absent", <<>>, NoObj) EXCEPT !.netErr = TRUE, !.netMsg = msg]

Malformed == [Envelope("absent", <<>>, NoObj) EXCEPT !.valid = FALSE]

ErrorObject(msg, inner) == [inner EXCEPT !.hasError = TRUE, !.errMsg = msg]

AbsentResult == Envelope("absent", <<>>, NoObj)

NullResult == Envelope("null", <<>>, NoObj)

StringResult(s) == Envelope("string", s, NoObj)

NumberResult == Envelope("number", <<>>, NoObj)

ObjectResult(o) == Envelope("object", <<>>, o)

\* The error of a request made with a context that is done.
CtxCanceled == NetFail(<<"context canceled">>)

ConnRefused == NetFail(<<"connection refused">>)

MsgRateLimit == <<"Max ", "rate limit", " reached">>

MsgCallsPerSec == <<"Max calls per sec ", "rate limit", " reached">>

MsgHashNotFound == <<"Error!", " Transaction hash not found">>

MsgUpperCase == <<"Rate Limit", " exceeded">>

MsgResource == <<"Resource not found">>

TxObj(h, bn) == [NoObj EXCEPT !.hash = h, !.blockNumber = bn]

ReceiptObj(st, gu) == [NoObj EXCEPT !.status = st, !.gasUsed = gu]

BlockObj(ts) == [NoObj EXCEPT !.timestamp = ts]

Hashes == {<<"0xabc">>}

\* Block numbers of the transaction: absent, zero in three spellings, 1, 11.
TxBlocks ==
  {<<>>, <<"0", "x", "0">>, <<"0", "x", "0", "0">>, <<"0", "x">>,
   <<"0", "x", "1">>, <<"0", "x", "b">>}

TxResponses ==
  {ConnRefused, Malformed, ErrorObject(MsgResource, AbsentResult),
   ErrorObject(MsgResource, ObjectResult(TxObj(<<"0xabc">>, <<"0", "x", "1">>))),
   ErrorObject(MsgResource, NullResult),
   ErrorObject(MsgResource, StringResult(MsgRateLimit)),
   AbsentResult, NullResult, NumberResult,
   StringResult(MsgRateLimit), StringResult(MsgCallsPerSec),
   StringResult(MsgHashNotFound), StringResult(MsgUpperCase)}
  \cup {ObjectResult(TxObj(h, bn)) : h \in Hashes, bn \in TxBlocks}

LatestResponses ==
  {ConnRefused, Malformed, ErrorObject(MsgResource, AbsentResult), NullResult,
   NumberResult, StringResult(MsgRateLimit), StringResult(<<"0", "x", "0">>),
   StringResult(<<"0", "x", "b">>), StringResult(<<"1", "2">>), ObjectResult(NoObj)}

ReceiptResponses ==
  {ConnRefused, Malformed, ErrorObject(MsgResource, AbsentResult), NullResult,
   StringResult(MsgRateLimit),
   ObjectResult(ReceiptObj(<<"0", "x", "1">>, <<"0", "x", "5", "2", "0", "8">>)),
   ObjectResult(ReceiptObj(<<"0", "x", "0">>, <<"0", "x", "5", "2", "0", "8">>)),
   ObjectResult(ReceiptObj(<<"0", "x", "2">>, <<>>))}

TimestampResponses ==
  {ConnRefused, Malformed, ErrorObject(MsgResource, AbsentResult), NullResult,
   StringResult(MsgRateLimit), ObjectResult(BlockObj(<<>>)),
   ObjectResult(BlockObj(<<"0", "x", "2", "a">>)),
   ObjectResult(BlockObj(<<"z">>))}

(***************************************************************************)
(* Go values: an error is nil or carries a message; a *Transaction is nil  *)
(* or points to a record.                                                  *)
(***************************************************************************)
NilErr == [nil |-> TRUE, msg |-> <<>>]

NewError(m) == [nil |-> FALSE, msg |-> m]

NilTx ==
  [nil |-> TRUE, Hash |-> <<>>, BlockNumber |-> <<>>, Confirmations |-> <<>>,
   Status |-> <<>>, Timestamp |-> <<>>, GasUsed |-> <<>>]

DecodeError == NewError(<<"failed to decode response: ", "json error">>)

ApiKeyError == NewError(<<"ETHERSCAN_API_KEY environment variable is not set">>)

\* The key test with its answer fixed to "present".
KeyMissingNever(key) == FALSE

\* client.go 58, 150, 227, 276: c.apiKey == ""
KeyMissing(key) == key = <<>>

ApiErrorPrefix == "Etherscan API error: "

NetworkHint == " (Is the hash on the correct network?)"

\* DecodeTransaction looking at the result before the error object.
DecodeTransactionResultFirst(r) ==
  IF r.netErr THEN [err |-> NewError(r.netMsg), obj |-> NoObj]
  ELSE IF ~r.valid THEN [err |-> DecodeError, obj |-> NoObj]
  ELSE IF r.rkind = "object" THEN [err |-> NilErr, obj |-> r.robj]
  ELSE IF r.rkind = "string"
    THEN [err |-> NewError(<<ApiErrorPrefix>> \o r.rstr
                           \o (IF Contains(r.rstr, "Error!") THEN <<NetworkHint>>
                               ELSE <<>>)),
          obj |-> NoObj]
  ELSE IF r.hasError THEN [err |-> NewError(r.errMsg), obj |-> NoObj]
  ELSE [err |-> NewError(<<"transaction not found or invalid response">>),
        obj |-> NoObj]

\* DecodeTransaction appending the network hint to every string result.
DecodeTransactionAlwaysHint(r) ==
  IF r.netErr THEN [err |-> NewError(r.netMsg), obj |-> NoObj]
  ELSE IF ~r.valid THEN [err |-> DecodeError, obj |-> NoObj]
  ELSE IF r.hasError THEN [err |-> NewError(r.errMsg), obj |-> NoObj]
  ELSE IF r.rkind = "absent" \/ r.rkind = "null"
    THEN [err |-> NewError(<<"transaction not found or invalid response">>),
          obj |-> NoObj]
  ELSE IF r.rkind = "object" THEN [err |-> NilErr, obj |-> r.robj]
  ELSE [err |-> NewError(<<ApiErrorPrefix>> \o r.rstr \o <<NetworkHint>>),
        obj |-> NoObj]

\* DecodeTransaction without the "Error!" branch of client.go 104-106.
DecodeTransactionNoHint(r) ==
  IF r.netErr THEN [err |-> NewError(r.netMsg), obj |-> NoObj]
  ELSE IF ~r.valid THEN [err |-> DecodeError, obj |-> NoObj]
  ELSE IF r.hasError THEN [err |-> NewError(r.errMsg), obj |-> NoObj]
  ELSE IF r.rkind = "absent" \/ r.rkind = "null"
    THEN [err |-> NewError(<<"transaction not found or invalid response">>),
          obj |-> NoObj]
  ELSE IF r.rkind = "object" THEN [err |-> NilErr, obj |-> r.robj]
  ELSE [err |-> NewError(<<ApiErrorPrefix>> \o r.rstr), obj |-> NoObj]

\* DecodeTransaction without the test of client.go 93: json.Unmarshal of null
\* into a struct succeeds and leaves it zero.
DecodeTransactionNoNullTest(r) ==
  IF r.netErr THEN [err |-> NewError(r.netMsg), obj |-> NoObj]
  ELSE IF ~r.valid THEN [err |-> DecodeError, obj |-> NoObj]
  ELSE IF r.hasError THEN [err |-> NewError(r.errMsg), obj |-> NoObj]
  ELSE IF r.rkind = "object" \/ r.rkind = "null" \/ r.rkind = "absent"
    THEN [err |-> NilErr, obj |-> r.robj]
  ELSE [err |-> NewError(<<ApiErrorPrefix>> \o r.rstr), obj |-> NoObj]

\* client.go 67-110: one transaction-by-hash request, from the HTTP outcome
\* to (tx, err).  json.RawMessage takes a result of any type.
DecodeTransaction(r) ==
  IF r.netErr THEN [err |-> NewError(r.netMsg), obj |-> NoObj]
  ELSE IF ~r.valid THEN [err |-> DecodeError, obj |-> NoObj]
  ELSE IF r.hasError THEN [err |-> NewError(r.errMsg), obj |-> NoObj]
  ELSE IF r.rkind = "absent" \/ r.rkind = "null"
    THEN [err |-> NewError(<<"transaction not found or invalid response">>),
          obj |-> NoObj]
  ELSE IF r.rkind = "object" THEN [err |-> NilErr, obj |-> r.robj]
  ELSE IF r.rkind = "string"
    THEN IF Contains(r.rstr, "Error!")
         THEN [err |-> NewError(<<ApiErrorPrefix>> \o r.rstr \o <<NetworkHint>>),
               obj |-> NoObj]
         ELSE [err |-> NewError(<<ApiErrorPrefix>> \o r.rstr), obj |-> NoObj]
  ELSE [err |-> NewError(<<"unexpected response format for result: ", "json error">>),
        obj |-> NoObj]

\* client.go 156-186: Result is a Go string, so an object or a number fails
\* json.Unmarshal; null and an absent result leave it "".
DecodeLatestBlock(r) ==
  IF r.netErr THEN [err |-> NewError(r.netMsg), val |-> <<>>]
  ELSE IF ~r.valid \/ r.rkind = "object" \/ r.rkind = "number"
    THEN [err |-> DecodeError, val |-> <<>>]
  ELSE IF r.hasError THEN [err |-> NewError(r.errMsg), val |-> <<>>]
  ELSE IF r.rstr = <<>>
    THEN [err |-> NewError(<<"invalid block number response">>), val |-> <<>>]
  ELSE [err |-> NilErr, val |-> r.rstr]

\* ReceiptStatus with the two codes swapped.
ReceiptStatusSwapped(st) ==
  IF st = <<"0", "x", "0">> THEN <<"success">>
  ELSE IF st = <<"0", "x", "1">> THEN <<"failed">>
  ELSE <<"Pending">>

\* client.go 315-320
ReceiptStatus(st) ==
  IF st = <<"0", "x", "1">> THEN <<"success">>
  ELSE IF st = <<"0", "x", "0">> THEN <<"failed">>
  ELSE <<"Pending">>

\* client.go 282-322: Result is a struct, so a string or a number fails
\* json.Unmarshal; null and an absent result leave the struct zero, and both
\* the literal-body test of line 311 and the mapping below give "Pending".
DecodeReceipt(r) ==
  IF r.netErr THEN [status |-> <<>>, gasUsed |-> <<>>, err |-> NewError(r.netMsg)]
  ELSE IF ~r.valid \/ r.rkind = "string" \/ r.rkind = "number"
    THEN [status |-> <<>>, gasUsed |-> <<>>, err |-> DecodeError]
  ELSE IF r.hasError
    THEN [status |-> <<>>, gasUsed |-> <<>>, err |-> NewError(r.errMsg)]
  ELSE IF r.rkind = "null" \/ r.rkind = "absent"
    THEN [status |-> <<"Pending">>, gasUsed |-> <<>>, err |-> NilErr]
  ELSE [status |-> ReceiptStatus(r.robj.status), gasUsed |-> r.robj.gasUsed,
        err |-> NilErr]

RECURSIVE HexRun(_)
\* The longest run of hex digits s starts with (what %x consumes).
HexRun(s) ==
  IF s = <<>> \/ ~IsDigit(s[1], 16) THEN <<>> ELSE <<s[1]>> \o HexRun(Tail(s))

\* fmt.Sscanf(ts, "0x%x", &unixTime), client.go 266-270.
ScanTimestamp(ts) ==
  IF HasPrefix(ts, Prefix0x) /\ HexRun(TrimPrefix(ts, Prefix0x)) # <<>>
  THEN [ok |-> TRUE, val |-> DigitsVal(HexRun(TrimPrefix(ts, Prefix0x)), 16)]
  ELSE [ok |-> FALSE, val |-> 0]

\* time.Unix(t, 0).UTC().Format(time.RFC3339): the instant, tagged.
FormatRFC3339(t) == <<"RFC3339:">> \o NatString(t)

\* client.go 233-272
DecodeTimestamp(r) ==
  IF r.netErr THEN [err |-> NewError(r.netMsg), val |-> <<>>]
  ELSE IF ~r.valid \/ r.rkind = "string" \/ r.rkind = "number"
    THEN [err |-> DecodeError, val |-> <<>>]
  ELSE IF r.hasError THEN [err |-> NewError(r.errMsg), val |-> <<>>]
  ELSE IF r.robj.timestamp = <<>>
    THEN [err |-> NewError(<<"timestamp not found in block">>), val |-> <<>>]
  ELSE IF ~ScanTimestamp(r.robj.timestamp).ok
    THEN [err |-> NewError(<<"failed to parse timestamp: ", "scan error">>),
          val |-> <<>>]
  ELSE [err |-> NilErr, val |-> FormatRFC3339(ScanTimestamp(r.robj.timestamp).val)]

\* NeedsTimestamp testing the wrong spelling of zero.
NeedsTimestampNever(hexBlockNumber) ==
  hexBlockNumber # <<>> /\ hexBlockNumber = <<"0">>

\* client.go 139
NeedsTimestamp(hexBlockNumber) ==
  hexBlockNumber # <<>> /\ hexBlockNumber # <<"0", "x", "0">>

(***************************************************************************)
(* Retry policy and cancellation context of FetchTransaction(ctx, hash).   *)
(* client_test.go calls this form; its retry loop is described by the      *)
(* specification (Retry Policy): a string result carrying the phrase       *)
(* "rate limit" is retryable, the call is reissued after a wait unless the *)
(* context is done, and the number of attempts is bounded.                 *)
(***************************************************************************)
\* The bound on the attempts; its value is not part of the specification.
MaxAttempts == 3

RateLimitPhrase == "rate limit"

\* Retryable that never asks for a retry.
RetryableNever(r) == FALSE


Retryable(r) ==
  /\ ~r.netErr /\ r.valid /\ ~r.hasError
  /\ r.rkind = "string"
  /\ Contains(r.rstr, RateLimitPhrase)

\* RetryAgain without the bound on the attempts.
RetryAgainUnbounded(r, made) == Retryable(r)

\* Whether one more attempt follows a failed attempt, `made` being the
\* number of requests made so far.
RetryAgain(r, made) == Retryable(r) /\ made < MaxAttempts

\* GiveUp that ignores the context.
GiveUpNever(done) == FALSE

\* Whether the retry loop gives up at the end of a wait.
GiveUp(done) == done

(***************************************************************************)
(* State                                                                   *)
(***************************************************************************)
TxAction == "eth_getTransactionByHash"

LatestAction == "eth_blockNumber"

ReceiptAction == "eth_getTransactionReceipt"

TimestampAction == "eth_getBlockByNumber"

Actions == {TxAction, LatestAction, ReceiptAction, TimestampAction}

Dependents == {LatestAction, ReceiptAction, TimestampAction}

VARIABLES
  apiKey,          \* Client.apiKey
  pc,              \* where FetchTransaction stands
  ctxCancellable,  \* whether the caller's context can be cancelled at all
  ctxDone,         \* whether the caller's context is done
  calls,           \* requests received by the provider, per action
  txResps,         \* the outcomes of the transaction-by-hash requests so far
  depErr,          \* per dependent call: "none", "ok" or "fail"
  depResp,         \* per dependent call: the HTTP outcome it got
  depRet,          \* per dependent call: what the fetch function returned
  hexBlockNumber,  \* the local of client.go 113
  tx,              \* the local tx of client.go 98
  lastErr,         \* the error of the last failed attempt
  ret,             \* what FetchTransaction returned
  state,           \* Model.state
  textInput,       \* Model.textInput's value
  percent,         \* Model.progress's percent, in steps of 0.1
  m_tx,            \* Model.tx
  m_err,           \* Model.err
  chainID,         \* Model.chainID
  chainId,         \* Client.chainId
  quit,            \* the program was told to quit
  fetchCmds,       \* fetch commands returned by Update and not started yet
  reqChains,       \* the chain IDs the running resolution's requests carried
  launchChain,     \* Client.chainId when the last fetch command was made
  fnArg,           \* the string a conversion function was called with
  fnName,          \* the function called last on its own, or "none"
  fnOut,           \* the string that function returned
  chainArgs,       \* the arguments of the SetChainID calls made so far
  chainGot         \* what the last ChainID() call returned

uiVars ==
  <<state, textInput, percent, m_tx, m_err, chainID, chainId, quit, fetchCmds,
    reqChains, launchChain>>

unitVars == <<fnArg, fnName, fnOut, chainArgs, chainGot>>

vars ==
  <<apiKey, pc, ctxCancellable, ctxDone, calls, txResps, depErr, depResp, depRet,
    hexBlockNumber, tx, lastErr, ret, state, textInput, percent, m_tx, m_err,
    chainID, chainId, quit, fetchCmds, reqChains, launchChain, fnArg, fnName,
    fnOut, chainArgs, chainGot>>

NoCalls == [a \in Actions |-> 0]

NoDeps == [a \in Dependents |-> "none"]

NoReturn == [tx |-> NilTx, err |-> NilErr]

\* No HTTP outcome yet.
NoResp == Envelope("none", <<>>, NoObj)

NoResps == [a \in Dependents |-> NoResp]

\* What a dependent fetch returns: FetchLatestBlockNumber (val, err),
\* FetchTransactionReceipt (val, gasUsed, err), FetchBlockTimestamp (val, err).
DepReturn(v, g, e) == [val |-> v, gasUsed |-> g, err |-> e]

NoDepReturns == [a \in Dependents |-> DepReturn(<<>>, <<>>, NilErr)]

ApiKeys == {<<>>, <<"test-api-key">>}

\* client.go 45, update.go 35
MainnetChainID == 1

\* update.go 36
SepoliaChainID == 11155111

Init ==
  /\ apiKey \in ApiKeys
  /\ pc = "idle"
  /\ ctxCancellable = FALSE
  /\ ctxDone = FALSE
  /\ calls = NoCalls
  /\ txResps = <<>>
  /\ depErr = NoDeps
  /\ depResp = NoResps
  /\ depRet = NoDepReturns
  /\ hexBlockNumber = <<>>
  /\ tx = NilTx
  /\ lastErr = NilErr
  /\ ret = NoReturn
  /\ chainId = MainnetChainID
  /\ state = "inputState"
  /\ textInput = <<>>
  /\ percent = 0
  /\ m_tx = NilTx
  /\ m_err = NilErr
  /\ chainID = chainId
  /\ quit = FALSE
  /\ fetchCmds = 0
  /\ reqChains = {}
  /\ launchChain = chainId
  /\ fnArg = <<>>
  /\ fnName = "none"
  /\ fnOut = <<>>
  /\ chainArgs = <<>>
  /\ chainGot = chainId

\* What an HTTP request made now can come back with: with the context done
\* nothing is sent and the context's error comes back; a cancellable context
\* may also be cancelled while the request is in flight.
Outcomes(resps) ==
  IF ctxDone THEN {CtxCanceled}
  ELSE resps \cup (IF ctxCancellable THEN {CtxCanceled} ELSE {})

Request(action, r) ==
  /\ calls' = [calls EXCEPT ![action] = @ + (IF ctxDone THEN 0 ELSE 1)]
  /\ ctxDone' = (ctxDone \/ r = CtxCanceled)

Return(t, e) ==
  /\ ret' = [tx |-> t, err |-> e]
  /\ pc' = "done"

\* client.go 57-60, entered with a context and a hash.
FetchTransaction(cancellable) ==
  /\ pc = "idle"
  /\ ctxCancellable' = cancellable
  /\ IF KeyMissing(apiKey)
     THEN Return(NilTx, ApiKeyError)
     ELSE pc' = "tx" /\ ret' = ret
  /\ UNCHANGED <<apiKey, ctxDone, calls, txResps, depErr, depResp, depRet, hexBlockNumber, tx,
                 lastErr>>

\* The caller cancels the context of the running resolution.
Cancel ==
  /\ pc \notin {"idle", "done"}
  /\ ctxCancellable /\ ~ctxDone
  /\ ctxDone' = TRUE
  /\ UNCHANGED <<apiKey, pc, ctxCancellable, calls, txResps, depErr, depResp, depRet,
                 hexBlockNumber, tx, lastErr, ret>>

\* NewTransaction that hands back no record.
NewTransactionNil(obj) == NilTx

\* client.go 112-125: the record right after a successful lookup.
NewTransaction(obj) ==
  [nil |-> FALSE, Hash |-> obj.hash, BlockNumber |-> hexToDecimal(obj.blockNumber),
   Confirmations |-> <<>>, Status |-> <<>>, Timestamp |-> <<>>, GasUsed |-> <<>>]

\* One transaction-by-hash attempt, client.go 62-125, and what the retry
\* policy does with its outcome.
Attempt(r) ==
  LET d == DecodeTransaction(r) IN
  /\ Request(TxAction, r)
  /\ txResps' = IF ctxDone THEN txResps ELSE Append(txResps, r)
  /\ IF d.err.nil
     THEN /\ tx' = NewTransaction(d.obj)
          /\ hexBlockNumber' = d.obj.blockNumber
          /\ pc' = "latest"
          /\ UNCHANGED <<lastErr, ret>>
     ELSE IF RetryAgain(r, calls'[TxAction])
     THEN /\ pc' = "retryWait"
          /\ lastErr' = d.err
          /\ UNCHANGED <<tx, hexBlockNumber, ret>>
     ELSE /\ Return(NilTx, d.err)
          /\ lastErr' = d.err
          /\ UNCHANGED <<tx, hexBlockNumber>>
  /\ UNCHANGED <<apiKey, ctxCancellable, depErr, depResp, depRet>>

FirstAttemptFrom(resps) ==
  /\ pc = "tx"
  /\ \E r \in Outcomes(resps) : Attempt(r)

FirstAttempt == FirstAttemptFrom(TxResponses)

\* The wait between two attempts ends: with the context done the last error
\* is returned, otherwise the call is reissued.
RetryWaitFrom(resps) ==
  /\ pc = "retryWait"
  /\ IF GiveUp(ctxDone)
     THEN /\ Return(NilTx, lastErr)
          /\ UNCHANGED <<apiKey, ctxCancellable, ctxDone, calls, txResps, depErr, depResp, depRet,
                         hexBlockNumber, tx, lastErr>>
     ELSE \E r \in Outcomes(resps) : Attempt(r)

RetryWait == RetryWaitFrom(TxResponses)

\* client.go 127-132: what the latest-block answer does to the record.
ApplyLatest(t, blockNumber, r) ==
  [t EXCEPT !.Confirmations =
     IF DecodeLatestBlock(r).err.nil
     THEN calculateConfirmations(DecodeLatestBlock(r).val, blockNumber)
     ELSE <<"error">>]

\* client.go 134-137: what the receipt answer does to the record.
ApplyReceipt(t, r) ==
  [t EXCEPT !.Status = DecodeReceipt(r).status,
            !.GasUsed = hexToDecimal(DecodeReceipt(r).gasUsed)]

\* The timestamp answer also wiping what the receipt gave.
ApplyTimestampOverwrite(t, r) ==
  IF DecodeTimestamp(r).err.nil
  THEN [t EXCEPT !.Timestamp = DecodeTimestamp(r).val, !.Status = <<>>,
                 !.GasUsed = <<>>]
  ELSE t

\* client.go 140-144: what the block answer does to the record.
ApplyTimestamp(t, r) ==
  IF DecodeTimestamp(r).err.nil THEN [t EXCEPT !.Timestamp = DecodeTimestamp(r).val]
  ELSE t

\* client.go 127-132
LatestBlockStepFrom(resps) ==
  /\ pc = "latest"
  /\ \E r \in Outcomes(resps) :
       LET d == DecodeLatestBlock(r) IN
       /\ Request(LatestAction, r)
       /\ depErr' = [depErr EXCEPT ![LatestAction] = IF d.err.nil THEN "ok" ELSE "fail"]
       /\ depResp' = [depResp EXCEPT ![LatestAction] = r]
       /\ depRet' = [depRet EXCEPT ![LatestAction] = DepReturn(d.val, <<>>, d.err)]
       /\ tx' = ApplyLatest(tx, hexBlockNumber, r)
  /\ pc' = "receipt"
  /\ UNCHANGED <<apiKey, ctxCancellable, txResps, hexBlockNumber, lastErr, ret>>

LatestBlockStep == LatestBlockStepFrom(LatestResponses)

\* client.go 134-139 (and 146 when no timestamp is fetched)
ReceiptStepFrom(resps) ==
  /\ pc = "receipt"
  /\ \E r \in Outcomes(resps) :
       LET d  == DecodeReceipt(r)
           t2 == ApplyReceipt(tx, r)
       IN
       /\ Request(ReceiptAction, r)
       /\ depErr' = [depErr EXCEPT ![ReceiptAction] = IF d.err.nil THEN "ok" ELSE "fail"]
       /\ depResp' = [depResp EXCEPT ![ReceiptAction] = r]
       /\ depRet' = [depRet EXCEPT ![ReceiptAction] = DepReturn(d.status, d.gasUsed, d.err)]
       /\ tx' = t2
       /\ IF NeedsTimestamp(hexBlockNumber)
          THEN pc' = "timestamp" /\ ret' = ret
          ELSE Return(t2, NilErr)
  /\ UNCHANGED <<apiKey, ctxCancellable, txResps, hexBlockNumber, lastErr>>

ReceiptStep == ReceiptStepFrom(ReceiptResponses)

\* client.go 140-146
TimestampStepFrom(resps) ==
  /\ pc = "timestamp"
  /\ \E r \in Outcomes(resps) :
       LET d  == DecodeTimestamp(r)
           t2 == ApplyTimestamp(tx, r)
       IN
       /\ Request(TimestampAction, r)
       /\ depErr' = [depErr EXCEPT ![TimestampAction] = IF d.err.nil THEN "ok" ELSE "fail"]
       /\ depResp' = [depResp EXCEPT ![TimestampAction] = r]
       /\ depRet' = [depRet EXCEPT ![TimestampAction] = DepReturn(d.val, <<>>, d.err)]
       /\ tx' = t2
       /\ Return(t2, NilErr)
  /\ UNCHANGED <<apiKey, ctxCancellable, txResps, hexBlockNumber, lastErr>>

TimestampStep == TimestampStepFrom(TimestampResponses)

\* What a dependent fetch returns for an answer.
FetchReturn(action, r) ==
  IF action = LatestAction
    THEN DepReturn(DecodeLatestBlock(r).val, <<>>, DecodeLatestBlock(r).err)
  ELSE IF action = ReceiptAction
    THEN DepReturn(DecodeReceipt(r).status, DecodeReceipt(r).gasUsed,
                   DecodeReceipt(r).err)
  ELSE DepReturn(DecodeTimestamp(r).val, <<>>, DecodeTimestamp(r).err)

\* One of the three dependent fetches called on its own, outside a
\* resolution: the key test, then one request and its decoding.
DirectCall(action, resps) ==
  /\ pc = "idle"
  /\ pc' = "direct"
  /\ IF KeyMissing(apiKey)
     THEN /\ depErr' = [depErr EXCEPT ![action] = "fail"]
          /\ depRet' = [depRet EXCEPT ![action] = DepReturn(<<>>, <<>>, ApiKeyError)]
          /\ UNCHANGED <<calls, depResp>>
     ELSE \E r \in resps :
            /\ calls' = [calls EXCEPT ![action] = @ + 1]
            /\ depResp' = [depResp EXCEPT ![action] = r]
            /\ depRet' = [depRet EXCEPT ![action] = FetchReturn(action, r)]
            /\ depErr' = [depErr EXCEPT ![action] =
                            IF FetchReturn(action, r).err.nil THEN "ok" ELSE "fail"]
  /\ UNCHANGED <<apiKey, ctxCancellable, ctxDone, txResps, hexBlockNumber, tx, lastErr,
                 ret>>

\* client.go 149-187
FetchLatestBlockNumber == DirectCall(LatestAction, LatestResponses)

\* client.go 275-323
FetchTransactionReceipt == DirectCall(ReceiptAction, ReceiptResponses)

\* client.go 226-273
FetchBlockTimestamp == DirectCall(TimestampAction, TimestampResponses)

\* The caller takes the result; the client is ready for the next resolution.
Finish ==
  /\ pc \in {"done", "direct"}
  /\ pc' = "idle"
  /\ ctxCancellable' = FALSE
  /\ ctxDone' = FALSE
  /\ calls' = NoCalls
  /\ txResps' = <<>>
  /\ depErr' = NoDeps
  /\ depResp' = NoResps
  /\ depRet' = NoDepReturns
  /\ hexBlockNumber' = <<>>
  /\ tx' = NilTx
  /\ lastErr' = NilErr
  /\ ret' = NoReturn
  /\ UNCHANGED apiKey

Step ==
  \/ FirstAttempt
  \/ RetryWait
  \/ LatestBlockStep
  \/ ReceiptStep
  \/ TimestampStep

\* The client on its own: the UI stays as New made it.
Next ==
  \/ (\E c \in BOOLEAN : FetchTransaction(c)) /\ UNCHANGED <<uiVars, unitVars>>
  \/ FetchLatestBlockNumber /\ UNCHANGED <<uiVars, unitVars>>
  \/ FetchTransactionReceipt /\ UNCHANGED <<uiVars, unitVars>>
  \/ FetchBlockTimestamp /\ UNCHANGED <<uiVars, unitVars>>
  \/ Cancel /\ UNCHANGED <<uiVars, unitVars>>
  \/ FirstAttempt /\ UNCHANGED <<uiVars, unitVars>>
  \/ RetryWait /\ UNCHANGED <<uiVars, unitVars>>
  \/ LatestBlockStep /\ UNCHANGED <<uiVars, unitVars>>
  \/ ReceiptStep /\ UNCHANGED <<uiVars, unitVars>>
  \/ TimestampStep /\ UNCHANGED <<uiVars, unitVars>>
  \/ Finish /\ UNCHANGED <<uiVars, unitVars>>

Spec == Init /\ [][Next]_vars

\* A started resolution is run to its end: fetchTransactionCmd runs
\* FetchTransaction in a goroutine that nothing stops.
FairSpec == Spec /\ WF_vars(Step /\ UNCHANGED <<uiVars, unitVars>>)

(***************************************************************************)
(* The terminal UI (internal/ui): Model, Update and the fetch command.     *)
(* Typed text is a sequence of symbols, a blank or a hash.                 *)
(***************************************************************************)
\* The longest text the input field takes (ti.CharLimit, model.go 44, is 66).
CharLimit == 2

InputSymbols == {" ", "0xabc"}

\* Steps of 0.1 after which Percent() >= 0.9 holds: in float64 nine steps of
\* 0.1 add up to 0.8999999999999999 and the tenth to 0.9999999999999999.
TickSteps == 10

\* SetPercent(1.0), update.go 64
FullPercent == 11

RECURSIVE TrimLeft(_)
TrimLeft(s) == IF s # <<>> /\ s[1] = " " THEN TrimLeft(Tail(s)) ELSE s

RECURSIVE TrimRight(_)
TrimRight(s) ==
  IF s # <<>> /\ s[Len(s)] = " " THEN TrimRight(SubSeq(s, 1, Len(s) - 1)) ELSE s

\* The text as it was typed.
TrimSpaceNothing(s) == s

\* strings.TrimSpace, update.go 44
TrimSpace(s) == TrimRight(TrimLeft(s))

\* The Tab test with the state left out.
TabAllowedAlways(st) == TRUE

\* The Tab test that only keeps a running search from being switched.
TabAllowedUnlessLoading(st) == st # "loadingState"

\* update.go 34
TabAllowed(st) == st = "inputState"

\* update.go 35-39
ToggleChain(id) == IF id = MainnetChainID THEN SepoliaChainID ELSE MainnetChainID

\* The provider's answers in a UI session.
UITxResponses ==
  {StringResult(MsgRateLimit), NullResult,
   ObjectResult(TxObj(<<"0xabc">>, <<"0", "x", "1">>)),
   ObjectResult(TxObj(<<"0xabc">>, <<>>))}

UILatestResponses == {Malformed, StringResult(<<"0", "x", "b">>)}

UIReceiptResponses ==
  {NullResult,
   ObjectResult(ReceiptObj(<<"0", "x", "1">>, <<"0", "x", "5", "2", "0", "8">>))}

UITimestampResponses == {Malformed, ObjectResult(BlockObj(<<"0", "x", "2", "a">>))}

\* Fetch commands made and not finished: waiting to start, running, or with
\* their message not delivered yet.
InFlight == fetchCmds + (IF pc = "idle" THEN 0 ELSE 1)

\* update.go 31-32; the program handles no message after tea.Quit.
KeyQuit ==
  /\ ~quit
  /\ quit' = TRUE
  /\ UNCHANGED <<apiKey, pc, ctxCancellable, ctxDone, calls, txResps, depErr, depResp,
                 depRet, hexBlockNumber, tx, lastErr, ret, state, textInput, percent,
                 m_tx, m_err, chainID, chainId, fetchCmds, reqChains, launchChain>>

\* update.go 33-41 and Client.SetChainID, client.go 49-51
KeyTab ==
  /\ ~quit
  /\ IF TabAllowed(state)
     THEN /\ chainID' = ToggleChain(chainID)
          /\ chainId' = chainID'
     ELSE UNCHANGED <<chainID, chainId>>
  /\ UNCHANGED <<apiKey, pc, ctxCancellable, ctxDone, calls, txResps, depErr, depResp,
                 depRet, hexBlockNumber, tx, lastErr, ret, state, textInput, percent,
                 m_tx, m_err, quit, fetchCmds, reqChains, launchChain>>

\* The test of update.go 54 with the loading state let through.
ResetAllowedAlways(st) == st # "inputState"

\* update.go 54
ResetAllowed(st) == st \in {"resultState", "errorState"}

\* update.go 42-60
KeyEnter ==
  /\ ~quit
  /\ IF state = "inputState" /\ TrimSpace(textInput) # <<>>
     THEN /\ state' = "loadingState"
          /\ percent' = 0
          /\ fetchCmds' = fetchCmds + 1
          /\ launchChain' = chainId
          /\ UNCHANGED textInput
     ELSE IF ResetAllowed(state)
     THEN /\ state' = "inputState"
          /\ textInput' = <<>>
          /\ UNCHANGED <<percent, fetchCmds, launchChain>>
     ELSE UNCHANGED <<state, textInput, percent, fetchCmds, launchChain>>
  /\ UNCHANGED <<apiKey, pc, ctxCancellable, ctxDone, calls, txResps, depErr, depResp,
                 depRet, hexBlockNumber, tx, lastErr, ret, m_tx, m_err, chainID,
                 chainId, quit, reqChains>>

\* update.go 85-87: a typed symbol reaches the input field in inputState.
KeyRunes(sym) ==
  /\ ~quit
  /\ textInput' = IF state = "inputState" /\ Len(textInput) < CharLimit
                  THEN Append(textInput, sym) ELSE textInput
  /\ UNCHANGED <<apiKey, pc, ctxCancellable, ctxDone, calls, txResps, depErr, depResp,
                 depRet, hexBlockNumber, tx, lastErr, ret, state, percent, m_tx, m_err,
                 chainID, chainId, quit, fetchCmds, reqChains, launchChain>>

\* update.go 85-87: backspace in inputState.
KeyBackspace ==
  /\ ~quit
  /\ textInput' = IF state = "inputState" /\ textInput # <<>>
                  THEN SubSeq(textInput, 1, Len(textInput) - 1) ELSE textInput
  /\ UNCHANGED <<apiKey, pc, ctxCancellable, ctxDone, calls, txResps, depErr, depResp,
                 depRet, hexBlockNumber, tx, lastErr, ret, state, percent, m_tx, m_err,
                 chainID, chainId, quit, fetchCmds, reqChains, launchChain>>

\* update.go 70-78
TickMsg ==
  /\ ~quit
  /\ percent' = IF state = "loadingState" /\ percent < TickSteps
                THEN percent + 1 ELSE percent
  /\ UNCHANGED <<apiKey, pc, ctxCancellable, ctxDone, calls, txResps, depErr, depResp,
                 depRet, hexBlockNumber, tx, lastErr, ret, state, textInput, m_tx,
                 m_err, chainID, chainId, quit, fetchCmds, reqChains, launchChain>>

\* model.go 69-71: the command made by Enter starts running, with
\* context.Background().
RunFetchCmd ==
  /\ ~quit
  /\ fetchCmds > 0
  /\ FetchTransaction(FALSE)
  /\ fetchCmds' = fetchCmds - 1
  /\ UNCHANGED <<state, textInput, percent, m_tx, m_err, chainID, chainId, quit,
                 reqChains, launchChain>>

\* A step of the running FetchTransaction; each request carries c.chainId
\* (client.go 65, 154, 231, 280).
Resolve(step) ==
  /\ ~quit
  /\ step
  /\ reqChains' = IF calls' # calls THEN reqChains \cup {chainId} ELSE reqChains
  /\ UNCHANGED <<state, textInput, percent, m_tx, m_err, chainID, chainId, quit,
                 fetchCmds, launchChain>>

\* fetchTransactionCmd taking every result for a transaction.
FetchFailedNever(r) == FALSE

\* model.go 72: err != nil
FetchFailed(r) == ~r.err.nil

\* model.go 75 and update.go 61-65
TxMsg ==
  /\ ~quit
  /\ pc = "done" /\ ~FetchFailed(ret)
  /\ Finish
  /\ m_tx' = ret.tx
  /\ state' = "resultState"
  /\ percent' = FullPercent
  /\ reqChains' = {}
  /\ UNCHANGED <<textInput, m_err, chainID, chainId, quit, fetchCmds, launchChain>>

\* model.go 72-74 and update.go 66-69
ErrMsg ==
  /\ ~quit
  /\ pc = "done" /\ FetchFailed(ret)
  /\ Finish
  /\ m_err' = ret.err
  /\ state' = "errorState"
  /\ reqChains' = {}
  /\ UNCHANGED <<textInput, percent, m_tx, chainID, chainId, quit, fetchCmds,
                 launchChain>>

UINext ==
  \/ KeyQuit /\ UNCHANGED unitVars
  \/ KeyTab /\ UNCHANGED unitVars
  \/ KeyEnter /\ UNCHANGED unitVars
  \/ (\E sym \in InputSymbols : KeyRunes(sym)) /\ UNCHANGED unitVars
  \/ KeyBackspace /\ UNCHANGED unitVars
  \/ TickMsg /\ UNCHANGED unitVars
  \/ RunFetchCmd /\ UNCHANGED unitVars
  \/ Resolve(FirstAttemptFrom(UITxResponses)) /\ UNCHANGED unitVars
  \/ Resolve(RetryWaitFrom(UITxResponses)) /\ UNCHANGED unitVars
  \/ Resolve(LatestBlockStepFrom(UILatestResponses)) /\ UNCHANGED unitVars
  \/ Resolve(ReceiptStepFrom(UIReceiptResponses)) /\ UNCHANGED unitVars
  \/ Resolve(TimestampStepFrom(UITimestampResponses)) /\ UNCHANGED unitVars
  \/ TxMsg /\ UNCHANGED unitVars
  \/ ErrMsg /\ UNCHANGED unitVars

UISpec == Init /\ [][UINext]_vars

\* What the program does by itself in a UI session: the Bubble Tea runtime
\* runs every command it is handed in a goroutine and delivers its message.
UIStep ==
  \/ RunFetchCmd
  \/ Resolve(FirstAttemptFrom(UITxResponses))
  \/ Resolve(RetryWaitFrom(UITxResponses))
  \/ Resolve(LatestBlockStepFrom(UILatestResponses))
  \/ Resolve(ReceiptStepFrom(UIReceiptResponses))
  \/ Resolve(TimestampStepFrom(UITimestampResponses))
  \/ TxMsg
  \/ ErrMsg

FairUISpec == UISpec /\ WF_vars(UIStep /\ UNCHANGED unitVars)

(***************************************************************************)
(* The dependent calls of one resolution in any order: after a successful  *)
(* lookup the provider's three answers are fixed, and the calls are sent   *)
(* and completed one by one in whatever order, each completion doing to    *)
(* the record what client.go 127-144 does with that call's answer.         *)
(***************************************************************************)
\* The lookup answers that settle the lookup at its first attempt.
OrderTxResponses == {r \in TxResponses : ~Retryable(r)}

Needed(action) == action # TimestampAction \/ NeedsTimestamp(hexBlockNumber)

Apply(action, t, r) ==
  IF action = LatestAction THEN ApplyLatest(t, hexBlockNumber, r)
  ELSE IF action = ReceiptAction THEN ApplyReceipt(t, r)
  ELSE ApplyTimestamp(t, r)

\* The provider's answers to the three calls of this resolution.
FixAnswers ==
  /\ pc = "latest"
  /\ pc' = "dependents"
  /\ \E l \in LatestResponses, rc \in ReceiptResponses, ts \in TimestampResponses :
       depResp' = [a \in Dependents |->
                     IF a = LatestAction THEN l
                     ELSE IF a = ReceiptAction THEN rc ELSE ts]
  /\ UNCHANGED <<apiKey, ctxCancellable, ctxDone, calls, txResps, depErr, depRet,
                 hexBlockNumber, tx, lastErr, ret>>

\* A dependent request goes out.
Send(action) ==
  /\ pc = "dependents"
  /\ depErr[action] = "none" /\ Needed(action)
  /\ depErr' = [depErr EXCEPT ![action] = "sent"]
  /\ calls' = [calls EXCEPT ![action] = @ + 1]
  /\ UNCHANGED <<apiKey, pc, ctxCancellable, ctxDone, txResps, depResp, depRet,
                 hexBlockNumber, tx, lastErr, ret>>

\* Its answer arrives and is put into the record.
Complete(action) ==
  /\ pc = "dependents"
  /\ depErr[action] = "sent"
  /\ depRet' = [depRet EXCEPT ![action] = FetchReturn(action, depResp[action])]
  /\ depErr' = [depErr EXCEPT ![action] =
                  IF FetchReturn(action, depResp[action]).err.nil THEN "ok" ELSE "fail"]
  /\ tx' = Apply(action, tx, depResp[action])
  /\ UNCHANGED <<apiKey, pc, ctxCancellable, ctxDone, calls, txResps, depResp,
                 hexBlockNumber, lastErr, ret>>

\* client.go 146, once every call that was needed is completed.
ReturnRecord ==
  /\ pc = "dependents"
  /\ \A a \in Dependents : Needed(a) => depErr[a] \in {"ok", "fail"}
  /\ Return(tx, NilErr)
  /\ UNCHANGED <<apiKey, ctxCancellable, ctxDone, calls, txResps, depErr, depResp,
                 depRet, hexBlockNumber, tx, lastErr>>

OrderNext ==
  \/ FetchTransaction(FALSE) /\ UNCHANGED <<uiVars, unitVars>>
  \/ FirstAttemptFrom(OrderTxResponses) /\ UNCHANGED <<uiVars, unitVars>>
  \/ FixAnswers /\ UNCHANGED <<uiVars, unitVars>>
  \/ (\E a \in Dependents : Send(a)) /\ UNCHANGED <<uiVars, unitVars>>
  \/ (\E a \in Dependents : Complete(a)) /\ UNCHANGED <<uiVars, unitVars>>
  \/ ReturnRecord /\ UNCHANGED <<uiVars, unitVars>>
  \/ Finish /\ UNCHANGED <<uiVars, unitVars>>

OrderSpec == Init /\ [][OrderNext]_vars

(***************************************************************************)
(* Single calls of the client's functions, as client_test.go makes them:   *)
(* the conversion functions on a string, SetChainID and ChainID.           *)
(***************************************************************************)
\* The longest of the short texts tried.
MaxDigits == 2

InputAlphabet == {"0", "2", "a", "F", "-", "z"}

ShortTexts == UNION {[1..n -> InputAlphabet] : n \in 0..MaxDigits}

\* 10^18, 5 * 10^17, 10^9, 5 * 10^8, 21000, 2^63, 2^64 + 1, 2^64 - 1,
\* 16 * 10^18 + 1 and 2^100 - 1 in hexadecimal, and a decimal text.
LongTexts ==
  {<<"0", "x", "d", "e", "0", "b", "6", "b", "3", "a", "7", "6",
     "4", "0", "0", "0", "0">>,
   <<"0", "x", "6", "f", "0", "5", "b", "5", "9", "d", "3", "b",
     "2", "0", "0", "0", "0">>,
   <<"0", "x", "3", "b", "9", "a", "c", "a", "0", "0">>,
   <<"0", "x", "1", "d", "c", "d", "6", "5", "0", "0">>,
   <<"0", "x", "5", "2", "0", "8">>,
   <<"0", "x", "8", "0", "0", "0", "0", "0", "0", "0", "0", "0",
     "0", "0", "0", "0", "0", "0">>,
   <<"0", "x", "1", "0", "0", "0", "0", "0", "0", "0", "0", "0",
     "0", "0", "0", "0", "0", "0", "1">>,
   <<"0", "x", "f", "f", "f", "f", "f", "f", "f", "f", "f", "f",
     "f", "f", "f", "f", "f", "f">>,
   <<"0", "x", "d", "e", "0", "b", "6", "b", "3", "a", "7", "6",
     "4", "0", "0", "0", "0", "1">>,
   <<"0", "x", "f", "f", "f", "f", "f", "f", "f", "f", "f", "f",
     "f", "f", "f", "f", "f", "f", "f", "f", "f", "f", "f", "f",
     "f", "f", "f">>,
   <<"1", "2", "3">>}

Texts == ShortTexts \cup {Prefix0x \o t : t \in ShortTexts} \cup LongTexts

Conversions == {"hexToDecimal", "formatValue", "formatGasPrice", "formatTransactionType"}

Converted(name, arg) ==
  IF name = "hexToDecimal" THEN hexToDecimal(arg)
  ELSE IF name = "formatValue" THEN formatValue(arg)
  ELSE IF name = "formatGasPrice" THEN formatGasPrice(arg)
  ELSE formatTransactionType(arg)

\* One of the conversion functions is called with a text.  The functions are
\* pure, so one call from the start stands for a call at any time.
CallConversion(name, arg) ==
  /\ fnName = "none"
  /\ fnName' = name
  /\ fnArg' = arg
  /\ fnOut' = Converted(name, arg)
  /\ UNCHANGED <<apiKey, pc, ctxCancellable, ctxDone, calls, txResps, depErr, depResp,
                 depRet, hexBlockNumber, tx, lastErr, ret, chainArgs, chainGot>>
  /\ UNCHANGED uiVars

\* The SetChainID calls of one client that are followed.
MaxSets == 2

ChainIDs == {-5, 0, 1, 5, 11155111}

\* A selector kept only if it is a recognised network.
SelectorRecognised(id) ==
  IF id \in {MainnetChainID, SepoliaChainID} THEN id ELSE MainnetChainID

\* client.go 50: the selector is stored as given.
Selector(id) == id

\* client.go 49-51
SetChainID(id) ==
  /\ fnName \notin Conversions
  /\ Len(chainArgs) < MaxSets
  /\ chainId' = Selector(id)
  /\ chainArgs' = Append(chainArgs, id)
  /\ fnName' = "SetChainID"
  /\ fnArg' = <<>>
  /\ fnOut' = <<>>
  /\ UNCHANGED <<apiKey, pc, ctxCancellable, ctxDone, calls, txResps, depErr, depResp,
                 depRet, hexBlockNumber, tx, lastErr, ret, state, textInput, percent,
                 m_tx, m_err, chainID, quit, fetchCmds, reqChains, launchChain,
                 chainGot>>

\* client.go 53-55
ChainID ==
  /\ fnName \notin Conversions
  /\ chainGot' = chainId
  /\ fnName' = "ChainID"
  /\ fnArg' = <<>>
  /\ fnOut' = <<>>
  /\ UNCHANGED <<apiKey, pc, ctxCancellable, ctxDone, calls, txResps, depErr, depResp,
                 depRet, hexBlockNumber, tx, lastErr, ret, chainArgs>>
  /\ UNCHANGED uiVars

UnitNext ==
  \/ \E name \in Conversions, arg \in Texts : CallConversion(name, arg)
  \/ \E id \in ChainIDs : SetChainID(id)
  \/ ChainID

UnitSpec == Init /\ [][UnitNext]_vars

(***************************************************************************)
(* Properties                                                              *)
(***************************************************************************)
Last(s) == s[Len(s)]

Sum(f) == f[TxAction] + f[LatestAction] + f[ReceiptAction] + f[TimestampAction]

\* The ways a transaction-by-hash lookup fails: transport error or malformed
\* body, explicit error object, null or absent result, string result.
LookupFailure(r) ==
  r.netErr \/ ~r.valid \/ r.hasError \/ r.rkind \in {"absent", "null", "string"}

LookupSuccess(r) == ~r.netErr /\ r.valid /\ ~r.hasError /\ r.rkind = "object"

RateLimited(r) == r \in {StringResult(MsgRateLimit), StringResult(MsgCallsPerSec)}

\* The error message the provider's answer r is reported with.
ReportedAs(r) ==
  IF r.netErr THEN r.netMsg
  ELSE IF ~r.valid THEN DecodeError.msg
  ELSE IF r.hasError THEN r.errMsg
  ELSE IF r.rkind = "string"
    THEN <<ApiErrorPrefix>> \o r.rstr
         \o (IF Contains(r.rstr, "Error!") THEN <<NetworkHint>> ELSE <<>>)
  ELSE <<"transaction not found or invalid response">>

\* C1: when the transaction-by-hash lookup ends in a failure, no latest-block,
\* receipt or timestamp request is made, and FetchTransaction returns an error
\* and no record.
C1_LookupFailureIsTerminal ==
  (txResps # <<>> /\ LookupFailure(Last(txResps)))
    => /\ \A a \in Dependents : calls[a] = 0
       /\ pc \in {"retryWait", "done"}
       /\ pc = "done" => ret.tx.nil /\ ~ret.err.nil

C1_Witness ==
  /\ pc = "done"
  /\ txResps = <<NullResult>>
  /\ ret.tx.nil
  /\ ret.err.msg = <<"transaction not found or invalid response">>

\* C2: every return of FetchTransaction carries exactly one of a record and an
\* error.
C2_RecordXorError == pc = "done" => (ret.tx.nil # ret.err.nil)

C2_Witness ==
  /\ pc = "done"
  /\ ~ret.tx.nil /\ ret.err.nil
  /\ depErr[LatestAction] = "fail" /\ depErr[ReceiptAction] = "ok"

\* C3 (as claimed): once the lookup succeeded a record is returned with no
\* error whatever the dependent calls do; a failed latest-block call gives
\* confirmations "error", a failed receipt call gives status "Pending" and a
\* failed timestamp call leaves the timestamp empty.
C3_DependentFailuresDegrade ==
  (pc = "done" /\ txResps # <<>> /\ LookupSuccess(Last(txResps)))
    => /\ ~ret.tx.nil /\ ret.err.nil
       /\ depErr[LatestAction] = "fail" => ret.tx.Confirmations = <<"error">>
       /\ depErr[ReceiptAction] = "fail" => ret.tx.Status = <<"Pending">>
       /\ depErr[TimestampAction] = "fail" => ret.tx.Timestamp = <<>>

StatusValues ==
  {<<"Pending">>, <<"success">>, <<"failed">>, <<"dropped">>, <<"replaced">>}

\* C4 (as claimed): the status of every returned record is one of Pending,
\* success, failed, dropped, replaced, also when the receipt call fails.
C4_StatusAlwaysSet ==
  (pc = "done" /\ ~ret.tx.nil) => ret.tx.Status \in StatusValues

C6_NoRetryUnlessRateLimited ==
  \A i \in 1..Len(txResps) :
    (LookupFailure(txResps[i]) /\ ~RateLimited(txResps[i]))
      => /\ i = Len(txResps)
         /\ calls[TxAction] = i
         /\ pc = "done"
         /\ ret.tx.nil
         /\ ret.err = NewError(ReportedAs(txResps[i]))

C6_Witness ==
  /\ pc = "done"
  /\ txResps = <<StringResult(MsgUpperCase)>>
  /\ calls[TxAction] = 1
  /\ ret.err.msg = <<ApiErrorPrefix>> \o MsgUpperCase

AllRateLimited == \A i \in 1..Len(txResps) : RateLimited(txResps[i])

NonZeroBlocks == {<<"0", "x", "1">>, <<"0", "x", "b">>}

KnownNumbers ==
  {<<<<"0", "x", "0">>, 0>>, <<<<"0", "x", "0", "0">>, 0>>, <<<<"0", "x", "1">>, 1>>,
   <<<<"0", "x", "b">>, 11>>, <<<<"1", "2">>, 12>>}

Parsable(s) == \E p \in KnownNumbers : p[1] = s

ValueOf(s) == (CHOOSE p \in KnownNumbers : p[1] = s)[2]

\* C11: with both block numbers given and the transaction's block not "0x0",
\* calculateConfirmations gives latest - tx + 1 in decimal when both parse,
\* the transaction's block is not zero and latest >= tx, "0" when latest < tx,
\* and "error" when either does not parse.
C11_Confirmations ==
  (depErr[LatestAction] = "ok" /\ hexBlockNumber \notin {<<>>, <<"0", "x", "0">>})
    => LET l == depRet[LatestAction].val
           t == hexBlockNumber
       IN  /\ l # <<>>
           /\ (Parsable(l) /\ Parsable(t) /\ ValueOf(t) # 0)
                => tx.Confirmations =
                     IF ValueOf(l) >= ValueOf(t)
                     THEN NatString(ValueOf(l) - ValueOf(t) + 1) ELSE <<"0">>
           /\ (~Parsable(l) \/ ~Parsable(t)) => tx.Confirmations = <<"error">>

C11_Witness ==
  /\ pc = "done"
  /\ depRet[LatestAction].val = <<"1", "2">>
  /\ hexBlockNumber = <<"0", "x", "b">>
  /\ ret.tx.Confirmations = <<"2">>

ZeroOrAbsentBlocks == {<<>>, <<"0", "x", "0">>, <<"0", "x", "0", "0">>, <<"0", "x">>}

\* C12 (as claimed): a returned record whose transaction has no block number
\* or a zero one ("0x0", "0x00", "0x") has empty confirmations, whatever the
\* latest-block call did.
C12_NoBlockNoConfirmations ==
  (pc = "done" /\ ~ret.tx.nil /\ hexBlockNumber \in ZeroOrAbsentBlocks)
    => ret.tx.Confirmations = <<>>

\* C13 (as claimed): in a resolution that was not cancelled, a block-timestamp
\* request is made exactly when the lookup succeeded with a block number that
\* is present and not zero; otherwise none is made and the timestamp is empty.
C13_TimestampOnlyForMinedBlock ==
  (pc = "done" /\ ~ctxDone)
    => /\ calls[TimestampAction] > 0
            <=> (~ret.tx.nil /\ hexBlockNumber \in NonZeroBlocks)
       /\ (~ret.tx.nil /\ hexBlockNumber \in ZeroOrAbsentBlocks)
            => ret.tx.Timestamp = <<>>

PlainBody(r) == ~r.netErr /\ r.valid /\ ~r.hasError

\* C14: FetchTransactionReceipt maps status "0x1" to "success", "0x0" to
\* "failed", anything else and a null result to "Pending", returns no error
\* for a null result, and returns the receipt's gasUsed as it is.
C14_ReceiptMapping ==
  LET r   == depResp[ReceiptAction]
      out == depRet[ReceiptAction]
  IN  (depErr[ReceiptAction] # "none" /\ PlainBody(r))
        => /\ r.rkind = "object"
                => /\ out.err.nil
                   /\ out.gasUsed = r.robj.gasUsed
                   /\ r.robj.status = <<"0", "x", "1">> => out.val = <<"success">>
                   /\ r.robj.status = <<"0", "x", "0">> => out.val = <<"failed">>
                   /\ r.robj.status \notin {<<"0", "x", "1">>, <<"0", "x", "0">>}
                        => out.val = <<"Pending">>
           /\ r.rkind = "null" => out.err.nil /\ out.val = <<"Pending">>

C14_Witness ==
  /\ depResp[ReceiptAction] =
       ObjectResult(ReceiptObj(<<"0", "x", "0">>, <<"0", "x", "5", "2", "0", "8">>))
  /\ depRet[ReceiptAction].val = <<"failed">>
  /\ depRet[ReceiptAction].gasUsed = <<"0", "x", "5", "2", "0", "8">>
  /\ pc = "done" /\ ret.tx.Status = <<"failed">>

\* C15: the lookup's answer is classified error object first, then null or
\* absent result, then string or structured result: with an error object the
\* error is error.message as it is, whatever the result; a null result is
\* "not found"; a string is a provider error; an object is a success.
C15_ClassifierPriority ==
  (txResps # <<>> /\ ~Last(txResps).netErr /\ Last(txResps).valid)
    => LET r == Last(txResps) IN
       /\ r.hasError => pc = "done" /\ ret.tx.nil /\ ret.err = NewError(r.errMsg)
       /\ (~r.hasError /\ r.rkind \in {"null", "absent"})
            => /\ pc = "done" /\ ret.tx.nil
               /\ ret.err = NewError(<<"transaction not found or invalid response">>)
       /\ (~r.hasError /\ r.rkind = "string")
            => /\ pc \in {"retryWait", "done"}
               /\ lastErr.msg[1] = ApiErrorPrefix
               /\ pc = "done" => ret.tx.nil /\ ret.err = lastErr
       /\ (~r.hasError /\ r.rkind = "object") => ~tx.nil /\ (pc = "done" => ret.err.nil)

C15_Witness ==
  /\ pc = "done"
  /\ txResps =
       <<ErrorObject(MsgResource, ObjectResult(TxObj(<<"0xabc">>, <<"0", "x", "1">>)))>>
  /\ ret.tx.nil
  /\ ret.err.msg = MsgResource

\* C16: the error of a string result is "Etherscan API error: ", the string,
\* and the network hint exactly when the string contains "Error!".
C16_StringResultMessage ==
  (pc = "done" /\ txResps # <<>> /\ PlainBody(Last(txResps))
      /\ Last(txResps).rkind = "string")
    => LET m == ret.err.msg
           t == Last(txResps).rstr
       IN  /\ ~ret.err.nil
           /\ Len(m) > Len(t)
           /\ m[1] = ApiErrorPrefix
           /\ SubSeq(m, 2, Len(t) + 1) = t
           /\ Contains(t, "Error!") <=> (Len(m) = Len(t) + 2 /\ m[Len(m)] = NetworkHint)
           /\ ~Contains(t, "Error!") => Len(m) = Len(t) + 1

C16_Witness ==
  /\ pc = "done"
  /\ txResps = <<StringResult(MsgHashNotFound)>>
  /\ ret.err.msg = <<ApiErrorPrefix>> \o MsgHashNotFound \o <<NetworkHint>>

\* C17 (as claimed): the receipt and block-timestamp calls classify an answer
\* as the transaction lookup does: an error object is its message, and a
\* string result is the provider error "Etherscan API error: ..." made of
\* that string.
C17_SameClassification ==
  \A a \in {ReceiptAction, TimestampAction} :
    (depErr[a] # "none" /\ ~depResp[a].netErr /\ depResp[a].valid)
      => /\ depResp[a].hasError => depRet[a].err = NewError(depResp[a].errMsg)
         /\ (~depResp[a].hasError /\ depResp[a].rkind = "string")
              => depRet[a].err = NewError(ReportedAs(depResp[a]))

ConfigurationError(e) ==
  ~e.nil /\ e.msg = <<"ETHERSCAN_API_KEY environment variable is not set">>

\* C18: with an empty API key no HTTP request is ever made, FetchTransaction
\* returns no record and a configuration error, and each of the three other
\* fetches, called on its own, returns empty values and a configuration error.
C18_NoKeyNoRequest ==
  apiKey = <<>>
    => /\ \A a \in Actions : calls[a] = 0
       /\ pc \in {"idle", "done", "direct"}
       /\ pc = "done" => ret.tx.nil /\ ConfigurationError(ret.err)
       /\ pc = "direct"
            => /\ \E a \in Dependents : depErr[a] # "none"
               /\ \A a \in Dependents :
                    depErr[a] # "none"
                      => /\ ConfigurationError(depRet[a].err)
                         /\ depRet[a].val = <<>> /\ depRet[a].gasUsed = <<>>

C18_Witness ==
  /\ apiKey = <<>>
  /\ pc = "direct"
  /\ ConfigurationError(depRet[ReceiptAction].err)
  /\ calls[ReceiptAction] = 0

\* C19: in a UI session at most one resolution is in flight, the client's
\* chain ID stays what it was when the resolution was launched for as long as
\* it is in flight, and all requests of one resolution carried that chain ID.
C19_OneResolutionOneChain ==
  /\ InFlight <= 1
  /\ InFlight > 0 => chainId = launchChain /\ state = "loadingState"
  /\ Cardinality(reqChains) <= 1
  /\ reqChains \subseteq {launchChain}

C19_Witness ==
  /\ pc = "timestamp"
  /\ state = "loadingState"
  /\ calls[TxAction] = 2
  /\ reqChains = {SepoliaChainID}
  /\ percent = 3

\* The record client.go 113-146 returns for the lookup's object and the three
\* answers, taking the calls in the order the code makes them.
SequentialRecord ==
  LET t0 == NewTransaction(Last(txResps).robj)
      t1 == ApplyLatest(t0, hexBlockNumber, depResp[LatestAction])
      t2 == ApplyReceipt(t1, depResp[ReceiptAction])
  IN  IF NeedsTimestamp(hexBlockNumber)
      THEN ApplyTimestamp(t2, depResp[TimestampAction]) ELSE t2

\* C20: with the provider's answers fixed, the record returned after the
\* dependent calls were sent and completed in any order is the record the
\* calls give in the code's order.
C20_OrderInsensitive ==
  (pc = "done" /\ ~ret.tx.nil) => ret.tx = SequentialRecord

\* The timestamp call was completed first and the latest-block call last.
C20_Witness ==
  /\ pc = "dependents"
  /\ depErr[TimestampAction] = "ok"
  /\ depErr[ReceiptAction] = "sent"
  /\ depErr[LatestAction] = "none"
  /\ tx.Timestamp # <<>>
  /\ tx.Status = <<>>

\* What the long texts are, worked out by hand: the decimal numbers ...
KnownDecimals ==
  {
   <<<<"0", "x", "d", "e", "0", "b", "6", "b", "3", "a", "7", "6",
      "4", "0", "0", "0", "0">>,
     <<"1", "0", "0", "0", "0", "0", "0", "0", "0", "0", "0", "0",
       "0", "0", "0", "0", "0", "0", "0">>>>,
   <<<<"0", "x", "6", "f", "0", "5", "b", "5", "9", "d", "3", "b",
      "2", "0", "0", "0", "0">>,
     <<"5", "0", "0", "0", "0", "0", "0", "0", "0", "0", "0", "0",
       "0", "0", "0", "0", "0", "0">>>>,
   <<<<"0", "x", "3", "b", "9", "a", "c", "a", "0", "0">>,
     <<"1", "0", "0", "0", "0", "0", "0", "0", "0", "0">>>>,
   <<<<"0", "x", "1", "d", "c", "d", "6", "5", "0", "0">>,
     <<"5", "0", "0", "0", "0", "0", "0", "0", "0">>>>,
   <<<<"0", "x", "5", "2", "0", "8">>,
     <<"2", "1", "0", "0", "0">>>>,
   <<<<"0", "x", "8", "0", "0", "0", "0", "0", "0", "0", "0", "0",
      "0", "0", "0", "0", "0", "0">>,
     <<"9", "2", "2", "3", "3", "7", "2", "0", "3", "6", "8", "5",
       "4", "7", "7", "5", "8", "0", "8">>>>,
   <<<<"0", "x", "1", "0", "0", "0", "0", "0", "0", "0", "0", "0",
      "0", "0", "0", "0", "0", "0", "1">>,
     <<"1", "8", "4", "4", "6", "7", "4", "4", "0", "7", "3", "7",
       "0", "9", "5", "5", "1", "6", "1", "7">>>>,
   <<<<"0", "x", "f", "f", "f", "f", "f", "f", "f", "f", "f", "f",
      "f", "f", "f", "f", "f", "f">>,
     <<"1", "8", "4", "4", "6", "7", "4", "4", "0", "7", "3", "7",
       "0", "9", "5", "5", "1", "6", "1", "5">>>>,
   <<<<"0", "x", "d", "e", "0", "b", "6", "b", "3", "a", "7", "6",
      "4", "0", "0", "0", "0", "1">>,
     <<"1", "6", "0", "0", "0", "0", "0", "0", "0", "0", "0", "0",
       "0", "0", "0", "0", "0", "0", "0", "1">>>>,
   <<<<"0", "x", "f", "f", "f", "f", "f", "f", "f", "f", "f", "f",
      "f", "f", "f", "f", "f", "f", "f", "f", "f", "f", "f", "f",
      "f", "f", "f">>,
     <<"1", "2", "6", "7", "6", "5", "0", "6", "0", "0", "2", "2",
       "8", "2", "2", "9", "4", "0", "1", "4", "9", "6", "7", "0",
       "3", "2", "0", "5", "3", "7", "5">>>>}

\* ... the same numbers divided by 10^18 ...
KnownEth ==
  {
   <<<<"0", "x", "d", "e", "0", "b", "6", "b", "3", "a", "7", "6",
      "4", "0", "0", "0", "0">>,
     <<"1", " ETH">>>>,
   <<<<"0", "x", "6", "f", "0", "5", "b", "5", "9", "d", "3", "b",
      "2", "0", "0", "0", "0">>,
     <<"0", ".", "5", " ETH">>>>,
   <<<<"0", "x", "3", "b", "9", "a", "c", "a", "0", "0">>,
     <<"0", ".", "0", "0", "0", "0", "0", "0", "0", "0", "1", " ETH">>>>,
   <<<<"0", "x", "1", "d", "c", "d", "6", "5", "0", "0">>,
     <<"0", ".", "0", "0", "0", "0", "0", "0", "0", "0", "0", "5",
       " ETH">>>>,
   <<<<"0", "x", "5", "2", "0", "8">>,
     <<"0", ".", "0", "0", "0", "0", "0", "0", "0", "0", "0", "0",
       "0", "0", "0", "2", "1", " ETH">>>>,
   <<<<"0", "x", "8", "0", "0", "0", "0", "0", "0", "0", "0", "0",
      "0", "0", "0", "0", "0", "0">>,
     <<"9", ".", "2", "2", "3", "3", "7", "2", "0", "3", "6", "8",
       "5", "4", "7", "7", "5", "8", "0", "8", " ETH">>>>,
   <<<<"0", "x", "1", "0", "0", "0", "0", "0", "0", "0", "0", "0",
      "0", "0", "0", "0", "0", "0", "1">>,
     <<"1", "8", ".", "4", "4", "6", "7", "4", "4", "0", "7", "3",
       "7", "0", "9", "5", "5", "1", "6", "1", "7", " ETH">>>>,
   <<<<"0", "x", "f", "f", "f", "f", "f", "f", "f", "f", "f", "f",
      "f", "f", "f", "f", "f", "f">>,
     <<"1", "8", ".", "4", "4", "6", "7", "4", "4", "0", "7", "3",
       "7", "0", "9", "5", "5", "1", "6", "1", "5", " ETH">>>>,
   <<<<"0", "x", "d", "e", "0", "b", "6", "b", "3", "a", "7", "6",
      "4", "0", "0", "0", "0", "1">>,
     <<"1", "6", ".", "0", "0", "0", "0", "0", "0", "0", "0", "0",
       "0", "0", "0", "0", "0", "0", "0", "0", "1", " ETH">>>>,
   <<<<"0", "x", "f", "f", "f", "f", "f", "f", "f", "f", "f", "f",
      "f", "f", "f", "f", "f", "f", "f", "f", "f", "f", "f", "f",
      "f", "f", "f">>,
     <<"1", "2", "6", "7", "6", "5", "0", "6", "0", "0", "2", "2",
       "8", ".", "2", "2", "9", "4", "0", "1", "4", "9", "6", "7",
       "0", "3", "2", "0", "5", "3", "7", "5", " ETH">>>>}

\* ... and the gas prices among them in both units.
KnownGasPrices ==
  {
   <<<<"0", "x", "d", "e", "0", "b", "6", "b", "3", "a", "7", "6",
      "4", "0", "0", "0", "0">>,
     <<"1", "0", "0", "0", "0", "0", "0", "0", "0", "0", " Gwei (", "1",
       " ETH)">>>>,
   <<<<"0", "x", "6", "f", "0", "5", "b", "5", "9", "d", "3", "b",
      "2", "0", "0", "0", "0">>,
     <<"5", "0", "0", "0", "0", "0", "0", "0", "0", " Gwei (", "0", ".",
       "5", " ETH)">>>>,
   <<<<"0", "x", "3", "b", "9", "a", "c", "a", "0", "0">>,
     <<"1", " Gwei (", "0", ".", "0", "0", "0", "0", "0", "0", "0", "0",
       "1", " ETH)">>>>,
   <<<<"0", "x", "1", "d", "c", "d", "6", "5", "0", "0">>,
     <<"0", ".", "5", " Gwei (", "0", ".", "0", "0", "0", "0", "0", "0",
       "0", "0", "0", "5", " ETH)">>>>,
   <<<<"0", "x", "5", "2", "0", "8">>,
     <<"0", ".", "0", "0", "0", "0", "2", "1", " Gwei (", "0", ".", "0",
       "0", "0", "0", "0", "0", "0", "0", "0", "0", "0", "0", "0",
       "2", "1", " ETH)">>>>}

IsKnown(table, text) == \E p \in table : p[1] = text

Known(table, text) == (CHOOSE p \in table : p[1] = text)[2]

HexDigitsOnly(t) == \A i \in 1..Len(t) : IsDigit(t[i], 16)

LowerHexOnly(t) == \A i \in 1..Len(t) : \E k \in 1..16 : LowerDigits[k] = t[i]

DecimalOnly(t) == \A i \in 1..Len(t) : IsDigit(t[i], 10)

\* A short text that is a number, without sign: "0x" and hex digits, or
\* decimal digits.
ShortNumber(t) ==
  /\ Len(t) <= 5
  /\ \/ HasPrefix(t, Prefix0x) /\ Len(t) > 2 /\ HexDigitsOnly(TrimPrefix(t, Prefix0x))
     \/ t # <<>> /\ DecimalOnly(t)

ShortValue(t) ==
  IF HasPrefix(t, Prefix0x) THEN DigitsVal(TrimPrefix(t, Prefix0x), 16)
  ELSE DigitsVal(t, 10)

TypeLabel(v) ==
  IF v = 0 THEN <<"0", " (Legacy)">>
  ELSE IF v = 1 THEN <<"1", " (Access List)">>
  ELSE IF v = 2 THEN <<"2", " (EIP-1559)">>
  ELSE IF v = 3 THEN <<"3", " (EIP-4844)">>
  ELSE NatString(v)

\* C21 (as claimed): formatTransactionType gives "0 (Legacy)" for "" and "0x",
\* the label for 0, 1, 2 and 3, the decimal string of the same integer for
\* every other value, those of 2^63 and more included, and gives back
\* unparsable input as it is.
C21_TransactionType ==
  fnName = "formatTransactionType"
    => /\ fnArg \in {<<>>, Prefix0x} => fnOut = <<"0", " (Legacy)">>
       /\ ShortNumber(fnArg) => fnOut = TypeLabel(ShortValue(fnArg))
       /\ IsKnown(KnownDecimals, fnArg) => fnOut = Known(KnownDecimals, fnArg)
       /\ (fnArg \notin {<<>>, Prefix0x} /\ ~stringToBig(fnArg).ok) => fnOut = fnArg

\* C22 (as claimed): hexToDecimal gives the decimal string of the same
\* integer for "0x" and lower-case hex digits of any length, "" for "", "0"
\* for "0x", and gives back as it is every text without "0x" and every text
\* with a character after "0x" that is no hex digit.
C22_HexToDecimal ==
  fnName = "hexToDecimal"
    => /\ fnArg = <<>> => fnOut = <<>>
       /\ fnArg = Prefix0x => fnOut = <<"0">>
       /\ (ShortNumber(fnArg) /\ HasPrefix(fnArg, Prefix0x)
             /\ LowerHexOnly(TrimPrefix(fnArg, Prefix0x)))
            => fnOut = NatString(ShortValue(fnArg))
       /\ IsKnown(KnownDecimals, fnArg) => fnOut = Known(KnownDecimals, fnArg)
       /\ ~HasPrefix(fnArg, Prefix0x) => fnOut = fnArg
       /\ (HasPrefix(fnArg, Prefix0x) /\ ~HexDigitsOnly(TrimPrefix(fnArg, Prefix0x)))
            => fnOut = fnArg

GweiForm(out) ==
  /\ out # <<>>
  /\ out[Len(out)] = " ETH)"
  /\ \E i \in 2..Len(out) - 2 : out[i] = " Gwei ("

\* C23 (as claimed): formatGasPrice gives "<gwei> Gwei (<eth> ETH)" for every
\* text of "0x" and hex digits, the bare "0x" included, with the value
\* divided by 10^9 and by 10^18, and gives back empty and non-"0x" input as
\* it is.
C23_GasPrice ==
  fnName = "formatGasPrice"
    => /\ (HasPrefix(fnArg, Prefix0x) /\ HexDigitsOnly(TrimPrefix(fnArg, Prefix0x)))
            => GweiForm(fnOut)
       /\ IsKnown(KnownGasPrices, fnArg) => fnOut = Known(KnownGasPrices, fnArg)
       /\ ~HasPrefix(fnArg, Prefix0x) => fnOut = fnArg

\* C24 (as claimed): formatValue gives the exact decimal expansion of the wei
\* value divided by 10^18, without trailing zeros, and " ETH", also above
\* 2^64; "0x" gives "0 ETH"; empty input and input that is no hex number is
\* given back as it is.
C24_WeiToEth ==
  fnName = "formatValue"
    => /\ IsKnown(KnownEth, fnArg) => fnOut = Known(KnownEth, fnArg)
       /\ fnArg \in {Prefix0x, <<"0", "x", "0">>} => fnOut = <<"0", " ETH">>
       /\ (ShortNumber(fnArg) /\ HasPrefix(fnArg, Prefix0x))
            => fnOut[Len(fnOut)] = " ETH"
       /\ ~HasPrefix(fnArg, Prefix0x) => fnOut = fnArg
       /\ (HasPrefix(fnArg, Prefix0x) /\ ~HexDigitsOnly(TrimPrefix(fnArg, Prefix0x)))
            => fnOut = fnArg

\* C25: a new client has chain ID 1, and ChainID() returns the argument of
\* the last SetChainID call, whatever integer that was.
C25_ChainIDIsLastSet ==
  /\ chainArgs = <<>> => chainId = 1
  /\ chainArgs # <<>> => chainId = Last(chainArgs)
  /\ fnName = "ChainID"
       => chainGot = (IF chainArgs = <<>> THEN 1 ELSE Last(chainArgs))

C25_Witness ==
  /\ fnName = "ChainID"
  /\ chainArgs = <<11155111, -5>>
  /\ chainGot = -5

\* C26: in a UI session the result screen always has a transaction and the
\* error screen always has an error, so View has what it renders.
C26_ViewHasWhatItRenders ==
  /\ state = "resultState" => ~m_tx.nil
  /\ state = "errorState" => ~m_err.nil

C26_Witness ==
  /\ state = "errorState"
  /\ ~m_err.nil
  /\ ~m_tx.nil
  /\ pc = "idle"

\* C27: the chain ID of the UI model is always the client's, and both change
\* only in inputState: a Tab there makes them 11155111 when they were 1, and
\* 1 otherwise.
C27_ChainToggle ==
  /\ [](chainID = chainId)
  /\ [][/\ (chainID' # chainID \/ chainId' # chainId) => state = "inputState"
        /\ (KeyTab /\ state = "inputState")
             => /\ chainID' = (IF chainID = 1 THEN 11155111 ELSE 1)
                /\ chainId' = chainID']_vars

C27_Witness ==
  /\ state = "resultState"
  /\ chainID = 11155111
  /\ chainId = 11155111
  /\ launchChain = 11155111

\* C28: loadingState is left only when the message of the running
\* resolution is delivered, to resultState on a transaction and to errorState
\* on an error, and when the program runs what it started, every
\* loadingState is followed by one of the two unless the user quits.
C28_LoadingEnds ==
  /\ [][(state = "loadingState" /\ state' # "loadingState")
          => /\ pc = "done" /\ pc' = "idle"
             /\ state' = (IF ret.err.nil THEN "resultState" ELSE "errorState")]_vars
  /\ (state = "loadingState") ~> (state \in {"resultState", "errorState"} \/ quit)

C28_Witness ==
  /\ state = "errorState"
  /\ percent = TickSteps
  /\ pc = "idle"
  /\ fetchCmds = 0
  /\ ~quit

Blank(text) == \A i \in 1..Len(text) : text[i] = " "

\* C29: Enter in inputState with an empty or blank hash changes nothing: the
\* state stays inputState, no fetch command is made and no request goes out.
C29_BlankEnterDoesNothing ==
  [][(KeyEnter /\ state = "inputState" /\ Blank(textInput))
       => /\ state' = "inputState"
          /\ UNCHANGED <<fetchCmds, pc, calls, textInput, percent>>]_vars

C29_Witness ==
  /\ state = "inputState"
  /\ textInput = <<" ", " ">>
  /\ fetchCmds = 0
  /\ pc = "idle"
  /\ ~m_tx.nil

=============================================================================
